---- MODULE Spec2Model ----
(***************************************************************************)
(* Model of repo_cleaner.py, the PISI repository cleaner: one run of the   *)
(* script over a repository directory.  File names and paths are sequences *)
(* of one-character strings, so that splitting, joining and version        *)
(* parsing are computed as the script computes them.                       *)
(***************************************************************************)
EXTENDS Integers, Sequences, FiniteSets

VARIABLES
    count,          \* args.count
    dirKind,        \* what args.directory is: "missing", "file" or "dir"
    fs,             \* the *.pisi and other files under args.directory (full paths)
    fs0,            \* history: fs when the run started
    pc,             \* position of the script
    answer,         \* the line last read by input()
    pisi_files,     \* result of scan_repository: sequence of <<root, file>>
    i,              \* parse_packages: index of the next element of pisi_files
    packages,       \* parse_packages: the dict, in insertion order
    errlog,         \* lines appended to repo_cleaner_error_log_*.txt
    old_packages,   \* result of find_redundant
    j,              \* remove_excess: index of the next path to remove (0: not started)
    exitCode,       \* argument of exit(), 1 for an uncaught exception
    exc             \* the uncaught exception that ended the run, or "none"

vars == <<count, dirKind, fs, fs0, pc, answer, pisi_files, i, packages, errlog,
          old_packages, j, exitCode, exc>>

\* ------------------------------------------------------------------ bounds
MaxFiles == 3       \* files under the repository directory
MaxKeep == 2        \* largest count argument
MaxNeg == 1         \* most negative count argument is 0 - MaxNeg

\* ------------------------------------------------------- character strings
Digits == {"0", "1", "2", "3", "4", "5", "6", "7", "8", "9"}

DigitVal(c) ==
    CASE c = "0" -> 0 [] c = "1" -> 1 [] c = "2" -> 2 [] c = "3" -> 3 [] c = "4" -> 4
      [] c = "5" -> 5 [] c = "6" -> 6 [] c = "7" -> 7 [] c = "8" -> 8 [] c = "9" -> 9

MinOf(S) == CHOOSE x \in S : \A y \in S : x <= y
MaxOf(S) == CHOOSE x \in S : \A y \in S : x >= y

Front(s) == SubSeq(s, 1, Len(s) - 1)
Last(s) == s[Len(s)]

Occurs(s, pat, k) ==
    /\ k + Len(pat) - 1 <= Len(s)
    /\ SubSeq(s, k, k + Len(pat) - 1) = pat

\* str.endswith
EndsWith(s, pat) == Len(s) >= Len(pat) /\ Occurs(s, pat, Len(s) - Len(pat) + 1)

\* s.split(pat)[0]: what precedes the first occurrence of pat
SplitFirst(s, pat) ==
    LET hits == {k \in 1..Len(s) : Occurs(s, pat, k)}
    IN  IF hits = {} THEN s ELSE SubSeq(s, 1, MinOf(hits) - 1)

\* s.rsplit(sep, n): split at the last n occurrences of the character sep
RECURSIVE RSplit(_, _, _)
RSplit(s, sep, n) ==
    LET hits == {k \in 1..Len(s) : s[k] = sep}
    IN  IF n = 0 \/ hits = {}
        THEN <<s>>
        ELSE LET k == MaxOf(hits)
             IN  Append(RSplit(SubSeq(s, 1, k - 1), sep, n - 1),
                        SubSeq(s, k + 1, Len(s)))

\* s.split(sep): split at every occurrence
Split(s, sep) == RSplit(s, sep, Len(s))

\* sep.join(parts)
RECURSIVE Join(_, _)
Join(parts, sep) ==
    IF parts = <<>> THEN <<>>
    ELSE IF Len(parts) = 1 THEN parts[1]
    ELSE Join(Front(parts), sep) \o <<sep>> \o Last(parts)

\* os.path.join(a, b)
OsPathJoin(a, b) ==
    IF b # <<>> /\ b[1] = "/" THEN b
    ELSE IF a = <<>> \/ Last(a) = "/" THEN a \o b
    ELSE a \o <<"/">> \o b

Ext == <<".", "p", "i", "s", "i">>

\* ------------------------------------------------ packaging.version.parse
IsDigits(s) == s # <<>> /\ \A k \in 1..Len(s) : s[k] \in Digits

RECURSIVE IntOf(_)
IntOf(s) == IF s = <<>> THEN 0 ELSE 10 * IntOf(Front(s)) + DigitVal(Last(s))

\* Variant of ParseVersion that keeps the components as text: each is valued by
\* its first two characters, which orders them as strings ("9" after "10").
LexVal(seg) == (DigitVal(seg[1]) + 1) * 11 + (IF Len(seg) > 1 THEN DigitVal(seg[2]) + 1 ELSE 0)

ParseVersionLexical(s) ==
    LET segs == Split(s, ".")
    IN  IF \A k \in 1..Len(segs) : IsDigits(segs[k])
        THEN [ok |-> TRUE, release |-> [k \in 1..Len(segs) |-> LexVal(segs[k])]]
        ELSE [ok |-> FALSE, release |-> <<>>]

\* Over digits, dots and letters that are no PEP 440 keyword, a version is
\* valid exactly when it is N(.N)*; anything else raises InvalidVersion.
ParseVersion(s) ==
    LET segs == Split(s, ".")
    IN  IF \A k \in 1..Len(segs) : IsDigits(segs[k])
        THEN [ok |-> TRUE, release |-> [k \in 1..Len(segs) |-> IntOf(segs[k])]]
        ELSE [ok |-> FALSE, release |-> <<>>]

\* Version._key: the release with its trailing zeros dropped
RECURSIVE StripZeros(_)
StripZeros(r) ==
    IF r # <<>> /\ Last(r) = 0 THEN StripZeros(Front(r)) ELSE r

\* tuple comparison a < b
TupleLess(a, b) ==
    \/ \E k \in 1..Len(a) :
          /\ k <= Len(b)
          /\ SubSeq(a, 1, k - 1) = SubSeq(b, 1, k - 1)
          /\ a[k] < b[k]
    \/ Len(a) < Len(b) /\ a = SubSeq(b, 1, Len(a))

\* Version.__lt__
VersionLess(a, b) == TupleLess(StripZeros(a.release), StripZeros(b.release))

\* --------------------------------------------------------- yes_no_prompt
Lower(c) == CASE c = "Y" -> "y" [] c = "N" -> "n" [] OTHER -> c

\* Variant of YesNo whose default on an empty line is yes.
YesNoDefaultYes(line) ==
    IF Len(line) = 0 THEN "yes"
    ELSE IF Lower(line[1]) \in {"y", "n"}
         THEN (IF Lower(line[1]) = "y" THEN "yes" ELSE "no")
         ELSE "again"

\* One round of the loop of yes_no_prompt on the line read:
\* "yes" / "no" are returned, "again" prompts once more.
YesNo(line) ==
    IF Len(line) = 0 THEN "no"
    ELSE IF Lower(line[1]) \in {"y", "n"}
         THEN (IF Lower(line[1]) = "y" THEN "yes" ELSE "no")
         ELSE "again"

\* --------------------------------------------------------- parse_packages
\* package_name_without_extension.rsplit('-', 4) of a file name
Fields(file) == RSplit(SplitFirst(file, Ext), "-", 4)

\* version_tuple = (*version.split('.'), revision)
VersionTuple(version, revision) == Append(Split(version, "."), revision)

\* '.'.join(version_tuple), parsed
Comparable(vt) == ParseVersion(Join(vt, "."))

\* position of the package in the dict, 0 when absent
PkgIndex(pkgs, name) ==
    LET hits == {k \in 1..Len(pkgs) : pkgs[k].name = name}
    IN  IF hits = {} THEN 0 ELSE MinOf(hits)

\* The body of the try block: packages.get / versions.append / package.update /
\* packages.update for one parsed file.
Merge(pkgs, name, pisi_version, arch, entry) ==
    LET k == PkgIndex(pkgs, name)
    IN  IF k = 0
        THEN Append(pkgs, [name |-> name, pisi_version |-> pisi_version,
                           arch |-> arch, versions |-> <<entry>>])
        ELSE [pkgs EXCEPT ![k] = [name |-> name, pisi_version |-> pisi_version,
                                  arch |-> arch,
                                  versions |-> Append(pkgs[k].versions, entry)]]

\* Variant of ParseFile that appends the entry before the version is parsed.
ParseFileAppendFirst(pkgs, log, path, file) ==
    LET f == Fields(file)
    IN  IF Len(f) # 5
        THEN [packages |-> pkgs, errlog |-> log, raised |-> "ValueError"]
        ELSE LET vt == VersionTuple(f[2], f[3])
                 cv == Comparable(vt)
                 merged == Merge(pkgs, f[1], f[4], f[5],
                                 [path |-> path, version |-> vt,
                                  comparable_version |-> cv])
             IN  IF cv.ok
                 THEN [packages |-> merged, errlog |-> log, raised |-> "none"]
                 ELSE [packages |-> merged,
                       errlog |-> Append(log, [file |-> file, version |-> f[2]]),
                       raised |-> "none"]

\* One iteration of the loop of parse_packages over <<path, file>>:
\* raised = "ValueError" when the unpacking of the rsplit fails (outside the try),
\* otherwise the dict and the error log after the iteration.
ParseFile(pkgs, log, path, file) ==
    LET f == Fields(file)
    IN  IF Len(f) # 5
        THEN [packages |-> pkgs, errlog |-> log, raised |-> "ValueError"]
        ELSE LET vt == VersionTuple(f[2], f[3])
                 cv == Comparable(vt)
             IN  IF cv.ok
                 THEN [packages |-> Merge(pkgs, f[1], f[4], f[5],
                                          [path |-> path, version |-> vt,
                                           comparable_version |-> cv]),
                       errlog |-> log, raised |-> "none"]
                 ELSE [packages |-> pkgs,
                       errlog |-> Append(log, [file |-> file, version |-> f[2]]),
                       raised |-> "none"]

\* --------------------------------------------------------- find_redundant
\* Variant of InsertDesc that puts an entry before the entries of equal key.
RECURSIVE InsertDescUnstable(_, _, _)
InsertDescUnstable(sorted, k, vs) ==
    IF sorted = <<>> THEN <<k>>
    ELSE IF ~VersionLess(vs[k].comparable_version, vs[sorted[1]].comparable_version)
         THEN <<k>> \o sorted
         ELSE <<sorted[1]>> \o InsertDescUnstable(Tail(sorted), k, vs)

\* sorted(..., key=comparable_version, reverse=True) as the permutation of the
\* positions of versions: descending, equal keys in their original order.
RECURSIVE InsertDesc(_, _, _)
InsertDesc(sorted, k, vs) ==
    IF sorted = <<>> THEN <<k>>
    ELSE IF VersionLess(vs[sorted[1]].comparable_version, vs[k].comparable_version)
         THEN <<k>> \o sorted
         ELSE <<sorted[1]>> \o InsertDesc(Tail(sorted), k, vs)

RECURSIVE SortedPrefix(_, _)
SortedPrefix(vs, n) ==
    IF n = 0 THEN <<>> ELSE InsertDesc(SortedPrefix(vs, n - 1), n, vs)

SortedIdx(vs) == SortedPrefix(vs, Len(vs))

\* Variant of PySliceFrom that starts one element late.
PySliceFromOffByOne(s, k) ==
    LET n == Len(s)
        start == IF k + 1 > n THEN n ELSE k + 1
    IN  SubSeq(s, start + 1, n)

\* s[k:]
PySliceFrom(s, k) ==
    LET n == Len(s)
        start == IF k < 0 THEN (IF n + k < 0 THEN 0 ELSE n + k)
                 ELSE (IF k > n THEN n ELSE k)
    IN  SubSeq(s, start + 1, n)

\* positions of meta['versions'] selected by line 145, in ranking order
DiscardIdx(meta, keep) == PySliceFrom(SortedIdx(meta.versions), keep)

\* the file name rebuilt from the group's and the entry's fields
Format(name, vt, pisi_version, arch) ==
    name \o <<"-">> \o Join(Front(vt), ".") \o <<"-">> \o Last(vt) \o <<"-">>
         \o pisi_version \o <<"-">> \o arch \o Ext

RebuiltPath(meta, entry) ==
    OsPathJoin(entry.path, Format(meta.name, entry.version, meta.pisi_version, meta.arch))

\* the inner loop over one package
RedundantOf(meta, keep) ==
    LET d == DiscardIdx(meta, keep)
    IN  [k \in 1..Len(d) |-> RebuiltPath(meta, meta.versions[d[k]])]

\* the outer loop over packages.items()
RECURSIVE FindRedundant(_, _)
FindRedundant(pkgs, keep) ==
    IF pkgs = <<>> THEN <<>>
    ELSE FindRedundant(Front(pkgs), keep) \o RedundantOf(Last(pkgs), keep)

\* -------------------------------------------------------- scan_repository
Top == <<"r">>                      \* args.directory
Sub == <<"r", "/", "s">>            \* a directory under it

\* os.walk yields <<root, file>>: the path split at its last separator
RootOf(p) == SubSeq(p, 1, MaxOf({k \in 1..Len(p) : p[k] = "/"}) - 1)
FileOf(p) == SubSeq(p, MaxOf({k \in 1..Len(p) : p[k] = "/"}) + 1, Len(p))

Orders(S) ==
    {o \in [1..Cardinality(S) -> S] : \A a, b \in 1..Cardinality(S) : a # b => o[a] # o[b]}

IsPisi(pair) == EndsWith(pair[2], Ext)

\* the results os.walk (top-down) can give: the directory's own files in any
\* order, then those of the directory under it, filtered by the extension
Scans(files) ==
    LET top == {p \in files : RootOf(p) = Top}
        sub == {p \in files : RootOf(p) = Sub}
    IN  {SelectSeq([k \in 1..(Len(a) + Len(b)) |->
                       LET p == (a \o b)[k] IN <<RootOf(p), FileOf(p)>>], IsPisi) :
            a \in Orders(top), b \in Orders(sub)}

\* ------------------------------------------------------------ the inputs
Stem(name, version, revision, tool, arch) ==
    name \o <<"-">> \o version \o <<"-">> \o revision \o <<"-">> \o tool \o <<"-">> \o arch

InDir(dir, file) == dir \o <<"/">> \o file

F == <<"f">>
GH == <<"g", "-", "h">>
V1_2_0 == <<"1", ".", "2", ".", "0">>
V1_9_0 == <<"1", ".", "9", ".", "0">>
V1_09_0 == <<"1", ".", "0", "9", ".", "0">>
V1_10_0 == <<"1", ".", "1", "0", ".", "0">>
V1_x == <<"1", ".", "x">>
P1 == <<"p", "1">>
P2 == <<"p", "2">>
X == <<"x">>
Y == <<"y">>

\* Well-formed archive names: <name>-<version>-<revision>-<toolVersion>-<arch>.pisi
\* with a numeric version.
WellFormed ==
    { InDir(Top, Stem(F, V1_2_0, <<"1">>, P1, X) \o Ext),
      InDir(Top, Stem(F, V1_10_0, <<"1">>, P1, X) \o Ext),
      InDir(Top, Stem(F, V1_9_0, <<"1">>, P1, X) \o Ext),
      InDir(Sub, Stem(F, V1_9_0, <<"1">>, P1, X) \o Ext),
      InDir(Top, Stem(F, V1_09_0, <<"1">>, P1, X) \o Ext),
      InDir(Top, Stem(F, V1_9_0, <<"1">>, P2, X) \o Ext),
      InDir(Top, Stem(F, V1_9_0, <<"2">>, P1, Y) \o Ext),
      InDir(Top, Stem(GH, <<"2">>, <<"1">>, P1, X) \o Ext) }

\* a version that does not parse, a name with fewer than 4 dashes, and a file
\* that is no archive
BadVersion == InDir(Top, Stem(F, V1_x, <<"1">>, P1, X) \o Ext)
BadFile == InDir(Top, <<"b", "a", "d", "-", "f", "i", "l", "e">> \o Ext)
Notes == InDir(Sub, <<"n", ".", "t", "x", "t">>)

Catalogue == WellFormed \cup {BadVersion, BadFile, Notes}

\* lines the user may type
Answers ==
    { <<>>, <<"y">>, <<"Y", "e", "s">>, <<"n">>, <<"N", "o">>, <<"x">>, <<"o", "y">> }

\* ------------------------------------------------------------ the script
Init ==
    /\ count \in (0 - MaxNeg)..MaxKeep
    /\ dirKind \in {"missing", "file", "dir"}
    /\ fs \in {S \in SUBSET Catalogue : Cardinality(S) <= MaxFiles}
    /\ dirKind # "dir" => fs = {}
    /\ fs0 = fs
    /\ pc = "start"
    /\ answer = <<>>
    /\ pisi_files = <<>>
    /\ i = 0
    /\ packages = <<>>
    /\ errlog = <<>>
    /\ old_packages = <<>>
    /\ j = 0
    /\ exitCode = 0
    /\ exc = "none"

Exit(code, e) ==
    /\ pc' = "exit"
    /\ exitCode' = code
    /\ exc' = e

\* line 203: args.count == 0 asks before anything else
Begin ==
    /\ pc = "start"
    /\ pc' = IF count = 0 THEN "prompt0" ELSE "checkdir"
    /\ UNCHANGED <<count, dirKind, fs, fs0, answer, pisi_files, i, packages, errlog,
                   old_packages, j, exitCode, exc>>

\* lines 204-207: one line read by yes_no_prompt for the zero-count question
AskZero ==
    /\ pc = "prompt0"
    /\ \E line \in Answers :
          /\ answer' = line
          /\ CASE YesNo(line) = "yes" -> pc' = "checkdir" /\ UNCHANGED <<exitCode, exc>>
               [] YesNo(line) = "no" -> Exit(0, "none")
               [] OTHER -> UNCHANGED <<pc, exitCode, exc>>
    /\ UNCHANGED <<count, dirKind, fs, fs0, pisi_files, i, packages, errlog,
                   old_packages, j>>

\* lines 210-216
CheckDir ==
    /\ pc = "checkdir"
    /\ CASE dirKind = "missing" -> Exit(0 - 1, "none")
         [] dirKind = "file" -> Exit(0 - 2, "none")
         [] OTHER -> pc' = "scan" /\ UNCHANGED <<exitCode, exc>>
    /\ UNCHANGED <<count, dirKind, fs, fs0, answer, pisi_files, i, packages, errlog,
                   old_packages, j>>

\* lines 218-222: scan_repository and the check of its result
Scan ==
    /\ pc = "scan"
    /\ \E found \in Scans(fs) :
          /\ pisi_files' = found
          /\ IF found = <<>>
             THEN Exit(1, "none") /\ i' = i
             ELSE pc' = "parse" /\ i' = 1 /\ UNCHANGED <<exitCode, exc>>
    /\ UNCHANGED <<count, dirKind, fs, fs0, answer, packages, errlog, old_packages, j>>

\* lines 97-126: one iteration of the loop of parse_packages
ParseStep ==
    /\ pc = "parse"
    /\ i <= Len(pisi_files)
    /\ LET r == ParseFile(packages, errlog, pisi_files[i][1], pisi_files[i][2])
       IN  /\ packages' = r.packages
           /\ errlog' = r.errlog
           /\ IF r.raised = "none"
              THEN i' = i + 1 /\ UNCHANGED <<pc, exitCode, exc>>
              ELSE i' = i /\ Exit(1, r.raised)
    /\ UNCHANGED <<count, dirKind, fs, fs0, answer, pisi_files, old_packages, j>>

\* lines 128, 224-226: parse_packages returns
ParseDone ==
    /\ pc = "parse"
    /\ i > Len(pisi_files)
    /\ IF packages = <<>>
       THEN Exit(0 - 3, "none")
       ELSE pc' = "find" /\ UNCHANGED <<exitCode, exc>>
    /\ UNCHANGED <<count, dirKind, fs, fs0, answer, pisi_files, i, packages, errlog,
                   old_packages, j>>

\* lines 228-233: find_redundant and the check of its result
Find ==
    /\ pc = "find"
    /\ old_packages' = FindRedundant(packages, count)
    /\ IF old_packages' = <<>>
       THEN Exit(0, "none")
       ELSE pc' = "prompt" /\ UNCHANGED <<exitCode, exc>>
    /\ UNCHANGED <<count, dirKind, fs, fs0, answer, pisi_files, i, packages, errlog, j>>

\* line 236: one line read by yes_no_prompt for the removal question; a "no"
\* lets the script run off its end
AskRemove ==
    /\ pc = "prompt"
    /\ \E line \in Answers :
          /\ answer' = line
          /\ CASE YesNo(line) = "yes" -> pc' = "remove" /\ j' = 1 /\ UNCHANGED <<exitCode, exc>>
               [] YesNo(line) = "no" -> Exit(0, "none") /\ j' = j
               [] OTHER -> UNCHANGED <<pc, j, exitCode, exc>>
    /\ UNCHANGED <<count, dirKind, fs, fs0, pisi_files, i, packages, errlog, old_packages>>

\* lines 171-173: os.remove of one path succeeds
RemoveOk ==
    /\ pc = "remove"
    /\ j <= Len(old_packages)
    /\ old_packages[j] \in fs
    /\ fs' = fs \ {old_packages[j]}
    /\ j' = j + 1
    /\ UNCHANGED <<count, dirKind, fs0, pc, answer, pisi_files, i, packages, errlog,
                   old_packages, exitCode, exc>>

\* line 173: os.remove raises (the file is not there, or may not be removed);
\* nothing catches it
RemoveFails ==
    /\ pc = "remove"
    /\ j <= Len(old_packages)
    /\ \/ old_packages[j] \notin fs /\ Exit(1, "FileNotFoundError")
       \/ old_packages[j] \in fs /\ Exit(1, "PermissionError")
    /\ UNCHANGED <<count, dirKind, fs, fs0, answer, pisi_files, i, packages, errlog,
                   old_packages, j>>

\* line 237: remove_excess returns and the script ends
RemoveDone ==
    /\ pc = "remove"
    /\ j > Len(old_packages)
    /\ Exit(0, "none")
    /\ UNCHANGED <<count, dirKind, fs, fs0, answer, pisi_files, i, packages, errlog,
                   old_packages, j>>

Next ==
    \/ Begin
    \/ AskZero
    \/ CheckDir
    \/ Scan
    \/ ParseStep
    \/ ParseDone
    \/ Find
    \/ AskRemove
    \/ RemoveOk
    \/ RemoveFails
    \/ RemoveDone

Spec == Init /\ [][Next]_vars

\* ------------------------------------------------- vocabulary of the claims
Range(s) == {s[k] : k \in 1..Len(s)}

\* number of dashes before the extension
Dashes(file) ==
    LET stem == SplitFirst(file, Ext)
    IN  Cardinality({k \in 1..Len(stem) : stem[k] = "-"})

\* the file has at least 4 dashes and a version that parses
ParsesOk(file) ==
    /\ Dashes(file) >= 4
    /\ LET f == Fields(file) IN Comparable(VersionTuple(f[2], f[3])).ok

\* the file has at least 4 dashes and a version that does not parse
BadVersionFile(file) ==
    /\ Dashes(file) >= 4
    /\ LET f == Fields(file) IN ~Comparable(VersionTuple(f[2], f[3])).ok

\* the scanned files of one package that parse, in scan order
PkgFiles(name) ==
    SelectSeq(pisi_files, LAMBDA pr : ParsesOk(pr[2]) /\ Fields(pr[2])[1] = name)

\* parse_packages went through the whole scan and find_redundant has run
FindRan ==
    /\ pc \in {"prompt", "remove", "exit"}
    /\ packages # <<>>
    /\ i > Len(pisi_files)

\* find_redundant has just returned its list: the script is at the final prompt,
\* or has left because the list is empty
Selected ==
    /\ FindRan
    /\ pc = "exit" => old_packages = <<>>
    /\ pc # "remove"

\* parse_packages has ended, by returning or by an exception
ParseOver ==
    \/ pc \in {"find", "prompt", "remove"}
    \/ pc = "exit" /\ pisi_files # <<>>

SameKey(a, b) ==
    StripZeros(a.comparable_version.release) = StripZeros(b.comparable_version.release)

\* number of entries ranked before entry m: the newer ones, and the equally new
\* ones that were scanned before it
Rank(vs, m) ==
    Cardinality({n \in 1..Len(vs) :
        \/ VersionLess(vs[m].comparable_version, vs[n].comparable_version)
        \/ SameKey(vs[m], vs[n]) /\ n < m})

AtRank(vs, r) == CHOOSE m \in 1..Len(vs) : Rank(vs, m) = r

\* the discard list the retention rule prescribes
ExpectedOf(meta, keep) ==
    LET n == Len(meta.versions)
    IN  [k \in 1..(IF n > keep THEN n - keep ELSE 0) |->
            RebuiltPath(meta, meta.versions[AtRank(meta.versions, keep + k - 1)])]

RECURSIVE Expected(_, _)
Expected(pkgs, keep) ==
    IF pkgs = <<>> THEN <<>>
    ELSE Expected(Front(pkgs), keep) \o ExpectedOf(Last(pkgs), keep)

RECURSIVE Pow10(_)
Pow10(e) == IF e = 0 THEN 1 ELSE 10 * Pow10(e - 1)

\* the decimal value of a digit string
RECURSIVE NumVal(_)
NumVal(s) ==
    IF s = <<>> THEN 0 ELSE DigitVal(Head(s)) * Pow10(Len(s) - 1) + NumVal(Tail(s))

\* entries a and b first differ at some component, where a has the larger number
NumericallyNewer(a, b) ==
    \E q \in 1..Len(a.version) :
        /\ q <= Len(b.version)
        /\ \A r \in 1..(q - 1) : NumVal(a.version[r]) = NumVal(b.version[r])
        /\ NumVal(a.version[q]) > NumVal(b.version[q])

\* position of entry m in the newest-first ranking
PosIn(seq, m) == CHOOSE k \in 1..Len(seq) : seq[k] = m

IsYesLine(line) == line # <<>> /\ line[1] \in {"y", "Y"}

\* ------------------------------------------------------------- the claims

\* C1: for a count >= 0, the discard list holds, package by package, exactly the
\* entries ranked at index >= count of the newest-first ranking, in that order:
\* the newest min(n, count) entries of a group are not selected, max(0, n - count)
\* are, and count = 0 selects all n.
C1_KeepNewest ==
    (Selected /\ count >= 0) =>
        /\ old_packages = Expected(packages, count)
        /\ \A g \in 1..Len(packages) :
              LET vs == packages[g].versions
                  d == DiscardIdx(packages[g], count)
              IN  /\ Range(d) = {m \in 1..Len(vs) : Rank(vs, m) >= count}
                  /\ Len(d) = (IF Len(vs) > count THEN Len(vs) - count ELSE 0)
                  /\ count = 0 => Len(d) = Len(vs)

C1_Witness ==
    /\ pc = "prompt"
    /\ count = 1
    /\ \E g \in 1..Len(packages) : Len(packages[g].versions) = 3
    /\ Len(old_packages) = 2

\* C2: every entry selected for discard is rebuilt into the path of the scanned
\* file it was parsed from.
C2_RoundTrip ==
    (Selected /\ count >= 0) =>
        \A g \in 1..Len(packages) :
            LET meta == packages[g]
                src == PkgFiles(meta.name)
                d == DiscardIdx(meta, count)
            IN  \A k \in 1..Len(d) :
                    /\ d[k] <= Len(src)
                    /\ RebuiltPath(meta, meta.versions[d[k]])
                           = OsPathJoin(src[d[k]][1], src[d[k]][2])

\* C3: a scanned name with fewer than 4 dashes does not abort the run, and
\* every valid file of the scan is in its package group once parsing is over.
C3_MalformedIsolated ==
    (ParseOver /\ count >= 0) =>
        /\ exc # "ValueError"
        /\ \A k \in 1..Len(pisi_files) :
              ParsesOk(pisi_files[k][2]) =>
                  \E g \in 1..Len(packages) :
                      /\ packages[g].name = Fields(pisi_files[k][2])[1]
                      /\ \E m \in 1..Len(packages[g].versions) :
                            /\ packages[g].versions[m].path = pisi_files[k][1]
                            /\ packages[g].versions[m].version
                                  = VersionTuple(Fields(pisi_files[k][2])[2],
                                                 Fields(pisi_files[k][2])[3])

\* C4: a file is removed only during removal, which is entered only by a line
\* starting with y/Y at the final prompt; with count = 0 the scan is reached
\* only after such a line at the zero-count prompt; an empty line at either
\* prompt ends the run with code 0 and nothing removed; a line starting with
\* none of y/Y/n/N leaves the run at the same prompt.
C4_PromptStep ==
    /\ (fs' # fs => pc = "remove" /\ IsYesLine(answer))
    /\ (pc \in {"prompt0", "prompt"} =>
          /\ (answer' = <<>> => pc' = "exit" /\ exitCode' = 0 /\ fs' = fs0)
          /\ (answer' # <<>> /\ answer'[1] \notin {"y", "Y", "n", "N"} =>
                  pc' = pc /\ fs' = fs /\ j' = j)
          /\ (pc' \in {"checkdir", "remove"} => IsYesLine(answer')))
    /\ (pc' = "remove" /\ pc # "remove" => pc = "prompt")
    /\ (pc' = "checkdir" /\ count = 0 => pc = "prompt0")

C4_Gate ==
    /\ (fs # fs0 => pc \in {"remove", "exit"} /\ IsYesLine(answer))
    /\ (count = 0 /\ pc \in {"checkdir", "scan", "parse", "find"} => IsYesLine(answer))
    /\ (pc \in {"start", "prompt0"} => pisi_files = <<>>)

C4_Confirmed == [][C4_PromptStep]_vars /\ []C4_Gate

C4_Witness ==
    /\ count = 0
    /\ pc = "remove"
    /\ fs # fs0
    /\ IsYesLine(answer)

\* C5: once removal has begun and the run has ended, every path of the discard
\* list other than one whose removal failed is gone.
C5_RemovalsIndependent ==
    (pc = "exit" /\ j >= 1 /\ count >= 0) =>
        \A k \in 1..Len(old_packages) : k = j \/ old_packages[k] \notin fs

\* C6: the exit codes: -1 for a missing directory and -2 for a path that is no
\* directory, with nothing scanned; 1 for a scan without archives; -3 when no
\* scanned file parses; 0 for an empty discard list or a rejected prompt; and in
\* all of these no file removed.
C6_DeclinedZero == count = 0 /\ old_packages = <<>> /\ answer # <<>> /\ ~IsYesLine(answer)

C6_DeclinedZeroEmpty == count = 0 /\ old_packages = <<>> /\ answer = <<>> /\ pisi_files = <<>>

C6_ExitCodes ==
    (pc = "exit" /\ count >= 0 /\ ~C6_DeclinedZero
        /\ ~(C6_DeclinedZeroEmpty /\ exitCode = 0)) =>
        /\ dirKind = "missing" =>
              exitCode = 0 - 1 /\ pisi_files = <<>> /\ packages = <<>> /\ fs = fs0
        /\ dirKind = "file" =>
              exitCode = 0 - 2 /\ pisi_files = <<>> /\ packages = <<>> /\ fs = fs0
        /\ (dirKind = "dir" /\ \A p \in fs0 : ~EndsWith(p, Ext)) =>
              exitCode = 1 /\ fs = fs0
        /\ (dirKind = "dir" /\ pisi_files # <<>>
                /\ \A k \in 1..Len(pisi_files) : ~ParsesOk(pisi_files[k][2])) =>
              exitCode = 0 - 3 /\ fs = fs0
        /\ (FindRan /\ (old_packages = <<>> \/ ~IsYesLine(answer))) =>
              exitCode = 0 /\ fs = fs0

\* C7: a run started with a negative count puts no archive in the discard list.
C7_NegativeCount ==
    count < 0 => old_packages = <<>> /\ pc \notin {"prompt", "remove"}

\* C8: within a group, an entry whose components first differ from another's at
\* a position where it has the larger number is ranked before it, whatever the
\* digit counts; with count = 1 the entry kept is numerically greatest.
C8_NumericOrder ==
    Selected =>
        \A g \in 1..Len(packages) :
            LET vs == packages[g].versions
                order == SortedIdx(vs)
            IN  /\ \A a, b \in 1..Len(vs) :
                      NumericallyNewer(vs[a], vs[b]) => PosIn(order, a) < PosIn(order, b)
                /\ count = 1 =>
                      /\ order[1] \notin Range(DiscardIdx(packages[g], count))
                      /\ \A b \in 1..Len(vs) : ~NumericallyNewer(vs[b], vs[order[1]])
                      /\ \A b \in 1..Len(vs) :
                            NumericallyNewer(vs[order[1]], vs[b]) =>
                                RebuiltPath(packages[g], vs[b]) \in Range(old_packages)

C8_Witness ==
    /\ pc = "prompt"
    /\ count = 1
    /\ \E g \in 1..Len(packages) :
          LET vs == packages[g].versions
          IN  /\ Len(vs) = 3
              /\ \E a, b, c \in 1..3 :
                    /\ vs[a].version = <<<<"1">>, <<"1", "0">>, <<"0">>, <<"1">>>>
                    /\ vs[b].version = <<<<"1">>, <<"9">>, <<"0">>, <<"1">>>>
                    /\ vs[c].version = <<<<"1">>, <<"2">>, <<"0">>, <<"1">>>>
                    /\ SortedIdx(vs) = <<a, b, c>>
                    /\ a = 3

\* C9: the entries of a group are its parsed files in scan order, and of two
\* entries with equal comparable version the one scanned earlier is ranked
\* first; with count = 1 the later one is selected for discard.
C9_StableTies ==
    Selected =>
        \A g \in 1..Len(packages) :
            LET meta == packages[g]
                vs == meta.versions
                src == PkgFiles(meta.name)
                order == SortedIdx(vs)
            IN  /\ Len(src) = Len(vs)
                /\ \A m \in 1..Len(vs) :
                      /\ vs[m].path = src[m][1]
                      /\ vs[m].version = VersionTuple(Fields(src[m][2])[2], Fields(src[m][2])[3])
                /\ \A a, b \in 1..Len(vs) :
                      (a < b /\ SameKey(vs[a], vs[b])) =>
                          /\ PosIn(order, a) < PosIn(order, b)
                          /\ count = 1 =>
                                /\ b \in Range(DiscardIdx(meta, count))
                                /\ RebuiltPath(meta, vs[b]) \in Range(old_packages)
                                /\ PosIn(order, a) = 1 => a \notin Range(DiscardIdx(meta, count))

C9_Witness ==
    /\ pc = "prompt"
    /\ count = 1
    /\ \E g \in 1..Len(packages) :
          LET vs == packages[g].versions
          IN  /\ Len(vs) = 2
              /\ SameKey(vs[1], vs[2])
              /\ vs[1].version # vs[2].version
              /\ DiscardIdx(packages[g], count) = <<2>>

\* C10: a file with at least 4 dashes whose version does not parse leaves the
\* package map as it was, adds one line to the error log and lets the loop go on
\* to the next file; its path never enters the discard list.
C10_SkipStep ==
    (pc = "parse" /\ i <= Len(pisi_files) /\ BadVersionFile(pisi_files[i][2])) =>
        /\ packages' = packages
        /\ Len(errlog') = Len(errlog) + 1
        /\ SubSeq(errlog', 1, Len(errlog)) = errlog
        /\ errlog'[Len(errlog')].file = pisi_files[i][2]
        /\ pc' = "parse"
        /\ i' = i + 1
        /\ exc' = "none"
        /\ fs' = fs

C10_NotDiscarded ==
    old_packages # <<>> =>
      \A k \in 1..Len(pisi_files) :
        BadVersionFile(pisi_files[k][2]) =>
            OsPathJoin(pisi_files[k][1], pisi_files[k][2]) \notin Range(old_packages)

C10_SkipFrame == [][C10_SkipStep]_vars /\ []C10_NotDiscarded

C10_Witness ==
    /\ pc = "prompt"
    /\ errlog # <<>>
    /\ Len(packages) = 1
    /\ Len(packages[1].versions) = 2
    /\ BadVersionFile(pisi_files[2][2])

====
